---------------------------- MODULE Spec2Model ----------------------------
(***************************************************************************)
(* A model of FChunk (AtlasEngine/Src/Rendering/Chunk.cpp): the block      *)
(* store, the run-length codec (Load / Unload), the loaded flag, the       *)
(* double-buffered mesh with its collider, and the greedy mesher.          *)
(*                                                                         *)
(* The chunk is scaled down: CHUNK_SIZE is the edge of the cube, 3 here,   *)
(* the smallest cube that has an interior cell.  Block types are small     *)
(* integers, 0 being FBlock::None.  Bytes keep their width (ByteMod).      *)
(***************************************************************************)
EXTENDS Integers, Sequences, FiniteSets, TLC

\* ---------------------------------------------------------------- bounds
CHUNK_SIZE == 3
MaxBlockType == 2
MaxEdits == 2
MaxCalls == 3
MaxRounds == 3
MaxSwaps == 4
MaxRebuilds == 2
MaxShutDowns == 2

\* ------------------------------------------------------------- constants
\* FBlock::None, the empty block type.
None == 0
\* uint8_t Length / RunLength / Count: arithmetic modulo 2^8.
ByteMod == 256

BLOCKS_PER_CHUNK == CHUNK_SIZE * CHUNK_SIZE * CHUNK_SIZE
BlockTypes == 0..MaxBlockType
Coord == 0..(CHUNK_SIZE - 1)
Cells == 0..(BLOCKS_PER_CHUNK - 1)

VARIABLES
    mBlocks,      \* FBlock* mBlocks: cell index -> block type
    mIsLoaded,    \* bool mIsLoaded
    disk,         \* the caller's byte vector (BlockData / BlockDataOut)
    diskFrom,     \* where the bytes of disk come from: "world", "unload", "appended", "tampered"
    saved,        \* the block store as it was at the last Unload
    last,         \* the last call: its name, its outcome and what it did
    edits,        \* SetBlock / DestroyBlock calls made so far
    calls,        \* Load / Unload calls made so far
    mActiveMesh,  \* std::atomic_bool mActiveMesh, as 0 / 1
    mIsEmpty,     \* bool mIsEmpty[2]
    mMesh,        \* TMesh<FVoxelVertex>* mMesh[2]: vertices, indices, activated
    physics,      \* the physics world's view of the chunk's collider, and the calls made
    built,        \* the output of the most recent RebuildMesh and the store it meshed
    pending,      \* a RebuildMesh was made since the last SwapMeshBuffer
    rounds,       \* SwapMeshBuffer calls made so far
    rebuilds,     \* RebuildMesh calls that have returned so far
    shutdowns,    \* ShutDown calls made so far
    script,       \* per SwapMeshBuffer so far: the newly active mesh had geometry
    render,       \* the render thread inside Render: its position and what it read
    rebuild       \* the rebuild thread inside RebuildMesh: its position, GreedyMesh's
                  \* vectors, and the geometry of every rebuild that returned

codecVars == <<mBlocks, mIsLoaded, disk, diskFrom, saved, edits, calls>>
meshVars == <<mActiveMesh, mIsEmpty, mMesh, physics, built, pending, rounds, rebuilds, shutdowns, script>>
threadVars == <<render, rebuild>>
vars == <<mBlocks, mIsLoaded, disk, diskFrom, saved, last, edits, calls,
          mActiveMesh, mIsEmpty, mMesh, physics, built, pending, rounds, rebuilds, shutdowns, script,
          render, rebuild>>

\* ------------------------------------------------------------ BlockIndex
\* Dot(Position, {CHUNK_SIZE, CHUNK_SIZE * CHUNK_SIZE, 1})
BlockIndex(X, Y, Z) == X * CHUNK_SIZE + Y * CHUNK_SIZE * CHUNK_SIZE + Z

\* The ASSERT of BlockIndex.
InChunk(X, Y, Z) == X \in Coord /\ Y \in Coord /\ Z \in Coord

\* A store filled with one type.
Fill(t) == [i \in Cells |-> t]

\* ------------------------------------------------------------------ Load
\* BlockData[i] (0-based); a read past the end of the vector is undefined
\* and yields whatever the caller passes as junk.
ReadByte(BlockData, i, junk) ==
    IF i < Len(BlockData) THEN BlockData[i + 1] ELSE junk

\* WriteRun with the run's first cell left unwritten (Count starting at 1).
WriteRunSkipFirst(blocks, first, RunLength, Type) ==
    [i \in Cells |-> IF first < i /\ i < first + RunLength THEN Type ELSE blocks[i]]

\* mBlocks[first + Count].Type = Type for Count < RunLength; a write past
\* the end of the store lands outside it and is not kept here.
WriteRun(blocks, first, RunLength, Type) ==
    [i \in Cells |-> IF first <= i /\ i < first + RunLength THEN Type ELSE blocks[i]]

\* for (z = 0; z < CHUNK_SIZE;) { ... z += RunLength; TypeIndex += 2; }
RECURSIVE LoadZ(_, _, _, _, _)
LoadZ(st, BlockData, BaseIndex, z, junk) ==
    IF z >= CHUNK_SIZE
    THEN st
    ELSE LET TypeIndex == st.TypeIndex
             RunLength == ReadByte(BlockData, TypeIndex + 1, junk.len)
             Type == ReadByte(BlockData, TypeIndex, junk.type)
             first == BaseIndex + z
         IN LoadZ([blocks |-> WriteRun(st.blocks, first, RunLength, Type),
                   written |-> st.written \cup {i \in Cells : first <= i /\ i < first + RunLength},
                   TypeIndex |-> TypeIndex + 2,
                   readOutside |-> st.readOutside \/ TypeIndex + 1 >= Len(BlockData),
                   wroteOutside |-> st.wroteOutside \/ first + RunLength > BLOCKS_PER_CHUNK],
                  BlockData, BaseIndex, z + RunLength, junk)

\* for (x = 0; x < CHUNK_SIZE; x++)
RECURSIVE LoadX(_, _, _, _, _)
LoadX(st, BlockData, y, x, junk) ==
    IF x >= CHUNK_SIZE
    THEN st
    ELSE LoadX(LoadZ(st, BlockData, BlockIndex(x, y, 0), 0, junk), BlockData, y, x + 1, junk)

\* for (y = 0; y < CHUNK_SIZE && TypeIndex < DataSize; y++)
RECURSIVE LoadY(_, _, _, _)
LoadY(st, BlockData, y, junk) ==
    IF y < CHUNK_SIZE /\ st.TypeIndex < Len(BlockData)
    THEN LoadY(LoadX(st, BlockData, y, 0, junk), BlockData, y + 1, junk)
    ELSE st

\* The loop nest of Load, from TypeIndex = 0 on the store as it is.
LoadRun(blocks, BlockData, junk) ==
    LoadY([blocks |-> blocks, written |-> {}, TypeIndex |-> 0, readOutside |-> FALSE, wroteOutside |-> FALSE],
          BlockData, 0, junk)

\* ---------------------------------------------------------------- Unload
\* mBlocks[i].Type; the look-ahead read at i = BLOCKS_PER_CHUNK is past the
\* end of the store and yields junk.
ReadBlock(blocks, i, junk) == IF i \in Cells THEN blocks[i] ELSE junk

\* UnloadLength that stops a run one block before the end of the row.
RECURSIVE UnloadLengthShort(_, _, _, _, _)
UnloadLengthShort(blocks, CurrentBlockIndex, z, Length, junk) ==
    IF blocks[CurrentBlockIndex] = ReadBlock(blocks, CurrentBlockIndex + Length, junk)
       /\ Length + z < CHUNK_SIZE - 1
    THEN UnloadLengthShort(blocks, CurrentBlockIndex, z, (Length + 1) % ByteMod, junk)
    ELSE Length

\* uint8_t Length = 1; while (CurrentBlock == NextBlock && Length + z < CHUNK_SIZE) Length++;
RECURSIVE UnloadLength(_, _, _, _, _)
UnloadLength(blocks, CurrentBlockIndex, z, Length, junk) ==
    IF blocks[CurrentBlockIndex] = ReadBlock(blocks, CurrentBlockIndex + Length, junk)
       /\ Length + z < CHUNK_SIZE
    THEN UnloadLength(blocks, CurrentBlockIndex, z, (Length + 1) % ByteMod, junk)
    ELSE Length

\* for (z = 0; z < CHUNK_SIZE;) { ... insert {CurrentBlock, Length}; z += Length; }
RECURSIVE UnloadZ(_, _, _, _, _, _)
UnloadZ(out, blocks, x, y, z, junk) ==
    IF z >= CHUNK_SIZE
    THEN out
    ELSE LET CurrentBlockIndex == BlockIndex(x, y, z)
             Length == UnloadLength(blocks, CurrentBlockIndex, z, 1, junk)
         IN UnloadZ(out \o <<blocks[CurrentBlockIndex], Length>>, blocks, x, y, z + Length, junk)

RECURSIVE UnloadX(_, _, _, _, _)
UnloadX(out, blocks, y, x, junk) ==
    IF x >= CHUNK_SIZE
    THEN out
    ELSE UnloadX(UnloadZ(out, blocks, x, y, 0, junk), blocks, y, x + 1, junk)

RECURSIVE UnloadY(_, _, _, _)
UnloadY(out, blocks, y, junk) ==
    IF y >= CHUNK_SIZE
    THEN out
    ELSE UnloadY(UnloadX(out, blocks, y, 0, junk), blocks, y + 1, junk)

\* The indices at which one row's runs read mBlocks: CurrentBlockIndex, and
\* CurrentBlockIndex + Length for every value Length takes, the look-ahead
\* read being made before Length + z is tested.
RECURSIVE UnloadReadsZ(_, _, _, _, _)
UnloadReadsZ(blocks, x, y, z, junk) ==
    IF z >= CHUNK_SIZE
    THEN {}
    ELSE LET CurrentBlockIndex == BlockIndex(x, y, z)
             Length == UnloadLength(blocks, CurrentBlockIndex, z, 1, junk)
         IN {CurrentBlockIndex + L : L \in 0..Length}
                \cup UnloadReadsZ(blocks, x, y, z + Length, junk)

\* The indices at which Unload reads mBlocks.
UnloadReads(blocks, junk) == UNION {UnloadReadsZ(blocks, x, y, 0, junk) : x \in Coord, y \in Coord}

\* The loop nest of Unload: BlockDataOut with the pairs of the store appended.
UnloadRun(BlockDataOut, blocks, junk) == UnloadY(BlockDataOut, blocks, 0, junk)


\* ======================================================================
\* The greedy mesher
\* ======================================================================
\* Vectors are functions on the axes 0, 1, 2.
Axes == 0..2
Vec3(a, b, c) == [k \in Axes |-> IF k = 0 THEN a ELSE IF k = 1 THEN b ELSE c]
BlockAt(blocks, P) == blocks[BlockIndex(P[0], P[1], P[2])]

\* static const float AOFactors[4] = { 0.4f, 0.65f, 0.85f, 1.0f }, in hundredths.
AOFactors == <<40, 65, 85, 100>>

\* A mask entry before any plane was scanned.
NoMaskInfo == [Block |-> None, AOFactors |-> <<0, 0, 0, 0>>]

\* The vertex AO without its first test: 3 minus the neighbours counted.
ComputeBlockVertexAONoTest(Side1, Side2, Corner) ==
    3 - ((IF Side1 THEN 1 ELSE 0) + (IF Side2 THEN 1 ELSE 0) + (IF Corner THEN 1 ELSE 0))

\* int32_t ComputeBlockVertexAO(bool Side1, bool Side2, bool Corner)
ComputeBlockVertexAO(Side1, Side2, Corner) ==
    IF Side1 /\ Side2
    THEN 0
    ELSE 3 - ((IF Side1 THEN 1 ELSE 0) + (IF Side2 THEN 1 ELSE 0) + (IF Corner THEN 1 ELSE 0))

\* Vector4i ComputeBlockFaceAO(bool Sides[8]): <<x, y, z, w>>
ComputeBlockFaceAO(Sides) ==
    << ComputeBlockVertexAO(Sides[3], Sides[1], Sides[0]),
       ComputeBlockVertexAO(Sides[3], Sides[6], Sides[5]),
       ComputeBlockVertexAO(Sides[4], Sides[6], Sides[7]),
       ComputeBlockVertexAO(Sides[1], Sides[4], Sides[2]) >>

\* void CheckAOSides(bool Sides[8], u, v, d, BlockPosition, DepthOffset)
CheckAOSides(blocks, u, v, d, BlockPosition, DepthOffset) ==
    LET HasTop == BlockPosition[v] < CHUNK_SIZE - 1
        HasBottom == BlockPosition[v] > 0
        HasLeft == BlockPosition[u] > 0
        HasRight == BlockPosition[u] < CHUNK_SIZE - 1
        Front == BlockPosition[d] + DepthOffset
        HasFront == Front <= CHUNK_SIZE - 1 /\ Front >= 0
        \* mBlocks[BlockIndex(Temp)].Type != FBlock::None, Temp moved by (ou, ov)
        Occupied(ou, ov) ==
            BlockAt(blocks, [k \in Axes |-> IF k = d THEN Front
                                            ELSE IF k = u THEN BlockPosition[u] + ou
                                            ELSE BlockPosition[v] + ov]) # None
    IN IF HasFront /\ HasLeft /\ HasRight /\ HasBottom /\ HasTop
       THEN [s \in 0..7 |->
               CASE s = 0 -> Occupied(-1, 1)
                 [] s = 1 -> Occupied(0, 1)
                 [] s = 2 -> Occupied(1, 1)
                 [] s = 3 -> Occupied(-1, 0)
                 [] s = 4 -> Occupied(1, 0)
                 [] s = 5 -> Occupied(-1, -1)
                 [] s = 6 -> Occupied(0, -1)
                 [] OTHER -> Occupied(1, -1)]
       ELSE [s \in 0..7 |-> FALSE]

\* IsMeshable with the AO factors compared corner by corner.
IsMeshableIdentical(Lhs, Rhs) ==
    IF Lhs.Block # Rhs.Block \/ Lhs.Block = None \/ Rhs.Block = None
    THEN FALSE
    ELSE \A i \in 1..4 : Lhs.AOFactors[i] = Rhs.AOFactors[i]

\* IsMeshable without the comparison of the two blocks.
IsMeshableAnyType(Lhs, Rhs) ==
    IF Lhs.Block = None \/ Rhs.Block = None
    THEN FALSE
    ELSE LET BaseAO == Lhs.AOFactors[1]
         IN \A i \in 1..4 : Lhs.AOFactors[i] = BaseAO /\ Rhs.AOFactors[i] = BaseAO

\* bool IsMeshable(const MaskInfo& Lhs, const MaskInfo& Rhs)
IsMeshable(Lhs, Rhs) ==
    IF Lhs.Block # Rhs.Block \/ Lhs.Block = None \/ Rhs.Block = None
    THEN FALSE
    ELSE LET BaseAO == Lhs.AOFactors[1]
         IN \A i \in 1..4 : Lhs.AOFactors[i] = BaseAO /\ Rhs.AOFactors[i] = BaseAO

\* The side a pass emits: WEST/EAST for d = 0, BOTTOM/TOP for 1, SOUTH/NORTH for 2.
SideOf(d, BackFace) ==
    IF d = 0 THEN (IF BackFace THEN "WEST" ELSE "EAST")
    ELSE IF d = 1 THEN (IF BackFace THEN "BOTTOM" ELSE "TOP")
    ELSE (IF BackFace THEN "SOUTH" ELSE "NORTH")

\* The switch of AddQuad.
NormalOf(Side) ==
    CASE Side = "WEST" -> Vec3(-1, 0, 0)
      [] Side = "EAST" -> Vec3(1, 0, 0)
      [] Side = "NORTH" -> Vec3(0, 0, 1)
      [] Side = "SOUTH" -> Vec3(0, 0, -1)
      [] Side = "TOP" -> Vec3(0, 1, 0)
      [] OTHER -> Vec3(0, -1, 0)

\* void AddQuad(BottomLeft, BottomRight, TopRight, TopLeft, IsBackface, Side,
\*              FaceInfo, VerticesOut, IndicesOut): the two vectors, extended.
AddQuad(BottomLeft, BottomRight, TopRight, TopLeft, IsBackface, Side, FaceInfo, VerticesOut, IndicesOut) ==
    LET Normal == NormalOf(Side)
        Cx == AOFactors[FaceInfo.AOFactors[1] + 1]
        Cy == AOFactors[FaceInfo.AOFactors[2] + 1]
        Cz == AOFactors[FaceInfo.AOFactors[3] + 1]
        Cw == AOFactors[FaceInfo.AOFactors[4] + 1]
        BaseIndex == Len(VerticesOut)
        V(P, ao) == [Position |-> P, AO |-> ao, Normal |-> Normal, Color |-> FaceInfo.Block]
    IN [Vertices |->
            VerticesOut \o
                (IF Cw + Cy > Cx + Cz
                 THEN <<V(BottomLeft, Cy), V(BottomRight, Cz), V(TopRight, Cw), V(TopLeft, Cx)>>
                 ELSE <<V(TopLeft, Cx), V(BottomLeft, Cy), V(BottomRight, Cz), V(TopRight, Cw)>>),
        Indices |->
            IndicesOut \o
                (IF ~IsBackface
                 THEN <<0 + BaseIndex, 1 + BaseIndex, 2 + BaseIndex,
                        2 + BaseIndex, 3 + BaseIndex, 0 + BaseIndex>>
                 ELSE <<0 + BaseIndex, 3 + BaseIndex, 2 + BaseIndex,
                        0 + BaseIndex, 2 + BaseIndex, 1 + BaseIndex>>)]

\* The locals of GreedyMesh as it starts: a mask of empty entries, the two
\* vectors empty, the loop variables of the first pass, the rectangles
\* emitted so far (Quads) and mIsEmpty[!mActiveMesh] as RebuildMesh set it.
MeshStart ==
    [Mask |-> [n \in 0..(CHUNK_SIZE * CHUNK_SIZE - 1) |-> NoMaskInfo],
     Vertices |-> <<>>, Indices |-> <<>>, Quads |-> <<>>, IsEmpty |-> TRUE,
     BackFace |-> TRUE, b |-> FALSE, d |-> 0, xd |-> -1, j |-> 0, i |-> 0, n |-> 0]

\* The mask without the test Voxel1 == Voxel2: every entry takes the voxel
\* of its pass.
RECURSIVE ComputeMaskNoCull(_, _)
ComputeMaskNoCull(g, blocks) ==
    IF g.n >= CHUNK_SIZE * CHUNK_SIZE
    THEN g
    ELSE LET d == g.d
             u == (d + 1) % 3
             v == (d + 2) % 3
             x == [k \in Axes |-> IF k = d THEN g.xd
                                  ELSE IF k = u THEN g.n % CHUNK_SIZE
                                  ELSE g.n \div CHUNK_SIZE]
             xq == [x EXCEPT ![d] = g.xd + 1]
             Voxel1 == IF g.xd >= 0 THEN BlockAt(blocks, x) ELSE None
             Voxel2 == IF g.xd < CHUNK_SIZE - 1 THEN BlockAt(blocks, xq) ELSE None
             entry == IF g.BackFace
                      THEN [Block |-> Voxel2, AOFactors |-> <<3, 3, 3, 3>>]
                      ELSE [Block |-> Voxel1, AOFactors |-> <<3, 3, 3, 3>>]
         IN ComputeMaskNoCull([g EXCEPT !.Mask[g.n] = entry, !.n = @ + 1], blocks)

\* Compute mask: the double loop over x[v], x[u] at sweep position x[d] = g.xd
\* of axis g.d, from entry g.n on.  An entry whose two voxels are equal gets
\* its block set to None and keeps the AO factors the slot held before.
RECURSIVE ComputeMask(_, _)
ComputeMask(g, blocks) ==
    IF g.n >= CHUNK_SIZE * CHUNK_SIZE
    THEN g
    ELSE LET d == g.d
             u == (d + 1) % 3
             v == (d + 2) % 3
             x == [k \in Axes |-> IF k = d THEN g.xd
                                  ELSE IF k = u THEN g.n % CHUNK_SIZE
                                  ELSE g.n \div CHUNK_SIZE]
             xq == [x EXCEPT ![d] = g.xd + 1]
             Voxel1 == IF g.xd >= 0 THEN BlockAt(blocks, x) ELSE None
             Voxel2 == IF g.xd < CHUNK_SIZE - 1 THEN BlockAt(blocks, xq) ELSE None
             entry == IF Voxel1 = Voxel2
                      THEN [Block |-> None, AOFactors |-> g.Mask[g.n].AOFactors]
                      ELSE IF g.BackFace
                           THEN [Block |-> Voxel2,
                                 AOFactors |-> ComputeBlockFaceAO(CheckAOSides(blocks, u, v, d, xq, -1))]
                           ELSE [Block |-> Voxel1,
                                 AOFactors |-> ComputeBlockFaceAO(CheckAOSides(blocks, u, v, d, x, 1))]
         IN ComputeMask([g EXCEPT !.Mask[g.n] = entry, !.n = @ + 1], blocks)

\* The width loop left at once: every quad one texel wide.
QuadWidthOne(Mask, n, i, Width) == Width

\* for (Width = 1; i + Width < CHUNK_SIZE && IsMeshable(Mask[n + Width], Mask[n]); Width++)
RECURSIVE QuadWidth(_, _, _, _)
QuadWidth(Mask, n, i, Width) ==
    IF i + Width < CHUNK_SIZE /\ IsMeshable(Mask[n + Width], Mask[n])
    THEN QuadWidth(Mask, n, i, Width + 1)
    ELSE Width

\* The height loop left at once: every quad one row high.
QuadHeightOne(Mask, n, j, Width, Height) == Height

\* for (Height = 1; j + Height < CHUNK_SIZE; Height++) { for k < Width ... Done }
RECURSIVE QuadHeight(_, _, _, _, _)
QuadHeight(Mask, n, j, Width, Height) ==
    IF j + Height < CHUNK_SIZE
       /\ \A k \in 0..(Width - 1) : IsMeshable(Mask[n + k + Height * CHUNK_SIZE], Mask[n])
    THEN QuadHeight(Mask, n, j, Width, Height + 1)
    ELSE Height

\* The mask zeroed in the first row of the rectangle only.
ZeroMaskFirstRow(Mask, n, Width, Height) ==
    [m \in {n + k : k \in 0..(Width - 1)} |-> [Mask[m] EXCEPT !.Block = None]] @@ Mask

\* Zero the mask: for (Length < Height) for (k < Width)
\*     Mask[n + k + Length * CHUNK_SIZE].Block.Type = None
ZeroMask(Mask, n, Width, Height) ==
    [m \in {n + k + Length * CHUNK_SIZE : k \in 0..(Width - 1), Length \in 0..(Height - 1)} |->
        [Mask[m] EXCEPT !.Block = None]] @@ Mask

\* for (i = 0; i < CHUNK_SIZE;) { ... }: the quads that start in row g.j of
\* the mask, from column g.i on.
RECURSIVE MeshCells(_)
MeshCells(g) ==
    IF g.i >= CHUNK_SIZE
    THEN g
    ELSE IF g.Mask[g.n].Block # None
    THEN LET d == g.d
             u == (d + 1) % 3
             v == (d + 2) % 3
             Width == QuadWidth(g.Mask, g.n, g.i, 1)
             Height == QuadHeight(g.Mask, g.n, g.j, Width, 1)
             x == [k \in Axes |-> IF k = d THEN g.xd ELSE IF k = u THEN g.i ELSE g.j]
             du == [k \in Axes |-> IF k = u THEN Width ELSE 0]
             dv == [k \in Axes |-> IF k = v THEN Height ELSE 0]
             Plus(a, c) == [k \in Axes |-> a[k] + c[k]]
             Side == SideOf(d, g.BackFace)
             q == AddQuad(x, Plus(x, du), Plus(Plus(x, du), dv), Plus(x, dv),
                          g.BackFace, Side, g.Mask[g.n], g.Vertices, g.Indices)
         IN MeshCells([g EXCEPT !.Mask = ZeroMask(@, g.n, Width, Height),
                                !.Vertices = q.Vertices,
                                !.Indices = q.Indices,
                                !.Quads = Append(@, [BackFace |-> g.BackFace, Side |-> Side,
                                                     d |-> d, plane |-> g.xd,
                                                     i |-> g.i, j |-> g.j,
                                                     Width |-> Width, Height |-> Height,
                                                     Block |-> g.Mask[g.n].Block,
                                                     AOFactors |-> g.Mask[g.n].AOFactors]),
                                !.IsEmpty = FALSE,
                                !.i = @ + Width,
                                !.n = @ + Width])
    ELSE MeshCells([g EXCEPT !.i = @ + 1, !.n = @ + 1])

\* for (j = 0; j < CHUNK_SIZE; j++): generate the mesh for the mask.
RECURSIVE MeshRows(_)
MeshRows(g) ==
    IF g.j >= CHUNK_SIZE
    THEN g
    ELSE MeshRows([MeshCells([g EXCEPT !.i = 0]) EXCEPT !.j = @ + 1])

\* for (x[d] = -1; x[d] < CHUNK_SIZE;) { compute mask; x[d]++; mesh the mask }
RECURSIVE MeshSweep(_, _)
MeshSweep(g, blocks) ==
    IF g.xd >= CHUNK_SIZE
    THEN g
    ELSE MeshSweep(MeshRows([ComputeMask([g EXCEPT !.n = 0], blocks)
                                EXCEPT !.xd = @ + 1, !.n = 0, !.j = 0]),
                   blocks)

\* for (d = 0; d < 3; d++)
RECURSIVE MeshAxes(_, _)
MeshAxes(g, blocks) ==
    IF g.d >= 3
    THEN g
    ELSE MeshAxes([MeshSweep([g EXCEPT !.xd = -1], blocks) EXCEPT !.d = @ + 1], blocks)

\* for (bool BackFace = true, b = false; b != BackFace;
\*      BackFace = BackFace && b, b = !b): the back faces, then the front faces.
RECURSIVE MeshFaces(_, _)
MeshFaces(g, blocks) ==
    IF g.b = g.BackFace
    THEN g
    ELSE MeshFaces([MeshAxes([g EXCEPT !.d = 0], blocks)
                       EXCEPT !.BackFace = @ /\ g.b, !.b = ~@],
                   blocks)

\* The loops of GreedyMesh over the blocks of the chunk.
GreedyMeshRun(blocks) == MeshFaces(MeshStart, blocks)

\* ------------------------------------------------------- the calls' record
\* What the model remembers of the last call: its name, how it ended
\* ("returned", or "assert" when an ASSERT stopped it), whether the chunk was
\* loaded when it was made, and for Load and Unload what the loops did.
CallRecord(op, outcome, preLoaded) ==
    [op |-> op, outcome |-> outcome, preLoaded |-> preLoaded,
     pre |-> <<>>, written |-> {}, TypeIndex |-> 0,
     readOutside |-> FALSE, wroteOutside |-> FALSE, prefix |-> 0,
     collider |-> "none", prevCount |-> 0, preActive |-> 0,
     drawn |-> <<>>,
     Sides |-> <<>>, FaceAO |-> <<>>, Colors |-> <<>>,
     Mask |-> <<>>, Width |-> 0, Height |-> 0,
     reads |-> {}]

NoCall == CallRecord("none", "returned", FALSE)

\* The bytes a world generator persists for a chunk of one type: one pair
\* (t, CHUNK_SIZE) per row.
WorldStream(t) == [i \in 1..(2 * CHUNK_SIZE * CHUNK_SIZE) |-> IF i % 2 = 1 THEN t ELSE CHUNK_SIZE]

\* The positions the callers of this model edit: the interior cell next to
\* the origin and the last cell of the chunk.
EditCells == {<<1, 1, 1>>, <<CHUNK_SIZE - 1, CHUNK_SIZE - 1, CHUNK_SIZE - 1>>}

\* What a read outside the vector may yield: nothing to choose when the call
\* makes no such read.
LoadJunk(blocks, BlockData) ==
    IF LoadRun(blocks, BlockData, [type |-> None, len |-> 1]).readOutside
    THEN [type : BlockTypes, len : 1..CHUNK_SIZE]
    ELSE {[type |-> None, len |-> 1]}

\* ------------------------------------------------------------ the actions
\* FChunk::Load(BlockData, WorldPosition), BlockData being the caller's bytes.
Load ==
    /\ calls < MaxCalls
    /\ calls' = calls + 1
    /\ IF mIsLoaded
       THEN \* ASSERT(!mIsLoaded)
            /\ last' = CallRecord("Load", "assert", mIsLoaded)
            /\ UNCHANGED <<mBlocks, mIsLoaded>>
       ELSE \E junk \in LoadJunk(mBlocks, disk) :
              LET r == LoadRun(mBlocks, disk, junk)
              IN /\ mBlocks' = r.blocks
                 /\ mIsLoaded' = TRUE
                 /\ last' = [CallRecord("Load", "returned", mIsLoaded) EXCEPT
                                !.pre = mBlocks, !.written = r.written,
                                !.TypeIndex = r.TypeIndex,
                                !.readOutside = r.readOutside,
                                !.wroteOutside = r.wroteOutside]
    /\ UNCHANGED <<disk, diskFrom, saved, edits>>
    /\ UNCHANGED <<meshVars, threadVars>>

\* FChunk::Unload(BlockDataOut); the caller passes an empty vector or one
\* that already holds a pair.
Unload ==
    /\ calls < MaxCalls
    /\ calls' = calls + 1
    /\ IF ~mIsLoaded
       THEN \* ASSERT(mIsLoaded)
            /\ last' = CallRecord("Unload", "assert", mIsLoaded)
            /\ UNCHANGED <<mIsLoaded, disk, diskFrom, saved>>
       ELSE \E BlockDataOut \in {<<>>, <<MaxBlockType, 1>>}, junk \in BlockTypes :
                 /\ mIsLoaded' = FALSE
                 /\ disk' = UnloadRun(BlockDataOut, mBlocks, junk)
                 /\ diskFrom' = IF BlockDataOut = <<>> THEN "unload" ELSE "appended"
                 /\ saved' = mBlocks
                 /\ last' = [CallRecord("Unload", "returned", mIsLoaded) EXCEPT
                                !.pre = mBlocks, !.prefix = Len(BlockDataOut),
                                !.reads = UnloadReads(mBlocks, junk)]
    /\ UNCHANGED <<mBlocks, edits>>
    /\ UNCHANGED <<meshVars, threadVars>>

\* FChunk::SetBlock(Position, BlockType)
SetBlock ==
    /\ edits < MaxEdits
    /\ edits' = edits + 1
    /\ \E pos \in EditCells, BlockType \in BlockTypes \ {None} :
          mBlocks' = [mBlocks EXCEPT ![BlockIndex(pos[1], pos[2], pos[3])] = BlockType]
    /\ last' = CallRecord("SetBlock", "returned", mIsLoaded)
    /\ UNCHANGED <<mIsLoaded, disk, diskFrom, saved, calls>>
    /\ UNCHANGED <<meshVars, threadVars>>

\* FChunk::DestroyBlock(Position)
DestroyBlock ==
    /\ edits < MaxEdits
    /\ edits' = edits + 1
    /\ \E pos \in EditCells :
          mBlocks' = [mBlocks EXCEPT ![BlockIndex(pos[1], pos[2], pos[3])] = None]
    /\ last' = CallRecord("DestroyBlock", "returned", mIsLoaded)
    /\ UNCHANGED <<mIsLoaded, disk, diskFrom, saved, calls>>
    /\ UNCHANGED <<meshVars, threadVars>>

\* ------------------------------------------------ TMesh<FVoxelVertex>
\* A mesh as constructed: no vertices, no indices, not activated.
NewMesh == [Vertices |-> <<>>, Indices |-> <<>>, Active |-> FALSE]

\* TMesh::ClearData, Deactivate, Activate, AddVertex, AddIndices
ClearData(mesh) == [mesh EXCEPT !.Vertices = <<>>, !.Indices = <<>>]
Deactivate(mesh) == [mesh EXCEPT !.Active = FALSE]
Activate(mesh) == [mesh EXCEPT !.Active = TRUE]
AddVertex(mesh, Vertices) == [mesh EXCEPT !.Vertices = @ \o Vertices]
AddIndices(mesh, Indices) == [mesh EXCEPT !.Indices = @ \o Indices]
GetVertexCount(mesh) == Len(mesh.Vertices)

\* What TMesh::Render draws.
Geometry(mesh) == [Vertices |-> mesh.Vertices, Indices |-> mesh.Indices]

\* -------------------------------------------------- the double buffer
\* RebuildMesh and GreedyMesh write the slot !mActiveMesh.  (The variant
\* that writes the active slot.)
RebuildSlotActive == mActiveMesh
RebuildSlot == 1 - mActiveMesh

\* SwapMeshBuffer, lines 168-171, with the slots swapped after the flip:
\* the newly active slot is the one cleared.
SwapSlotsClearNew(meshes, active) ==
    [k \in 0..1 |-> IF k = 1 - active
                    THEN Activate(Deactivate(ClearData(meshes[k])))
                    ELSE meshes[k]]

\* SwapMeshBuffer, lines 168-171: the active slot is cleared and
\* deactivated, the other one activated.
SwapSlots(meshes, active) ==
    [k \in 0..1 |-> IF k = active
                    THEN Deactivate(ClearData(meshes[k]))
                    ELSE Activate(meshes[k])]

\* The collider decision with the previous mesh's flag never looked at.
ColliderCallNoPrevious(IsEmpty, active, VertexCount) ==
    IF ~IsEmpty[active] /\ VertexCount > 0 THEN "add" ELSE "remove"

\* SwapMeshBuffer, lines 176-207, active being the index after the flip:
\* the call made to the physics system.
ColliderCall(IsEmpty, active, VertexCount) ==
    IF ~IsEmpty[active] /\ VertexCount > 0
    THEN (IF IsEmpty[1 - active] THEN "add" ELSE "none")
    ELSE (IF ~IsEmpty[1 - active] THEN "remove" ELSE "none")

\* FPhysicsSystem::AddCollider / RemoveCollider as seen from the chunk.
PhysicsAfter(p, call) ==
    IF call = "add"
    THEN [registered |-> TRUE, adds |-> p.adds + 1, removes |-> p.removes,
          redundant |-> p.redundant \/ p.registered]
    ELSE IF call = "remove"
    THEN [registered |-> FALSE, adds |-> p.adds, removes |-> p.removes + 1,
          redundant |-> p.redundant \/ ~p.registered]
    ELSE p

\* FChunk::RebuildMesh()
RebuildMesh ==
    /\ last' = CallRecord("RebuildMesh", "returned", mIsLoaded)
    /\ \E g \in {GreedyMeshRun(mBlocks)} :
       LET m == mMesh[RebuildSlot]
       IN /\ mIsEmpty' = [mIsEmpty EXCEPT ![RebuildSlot] = g.IsEmpty]
          /\ mMesh' = [mMesh EXCEPT ![RebuildSlot] = AddIndices(AddVertex(m, g.Vertices), g.Indices)]
          /\ built' = [Vertices |-> g.Vertices, Indices |-> g.Indices, Quads |-> g.Quads,
                       blocks |-> mBlocks]
    /\ pending' = TRUE
    /\ rebuilds' = rebuilds + 1
    /\ UNCHANGED <<mActiveMesh, physics, rounds, shutdowns, script>>
    /\ UNCHANGED <<codecVars, threadVars>>

\* FChunk::SwapMeshBuffer(PhysicsSystem)
SwapMeshBuffer ==
    /\ rounds' = rounds + 1
    /\ LET active == 1 - mActiveMesh
           meshes == SwapSlots(mMesh, mActiveMesh)
           call == ColliderCall(mIsEmpty, active, GetVertexCount(meshes[active]))
       IN /\ mActiveMesh' = active
          /\ mMesh' = meshes
          /\ physics' = PhysicsAfter(physics, call)
          /\ script' = Append(script, GetVertexCount(meshes[active]) > 0)
          /\ last' = [CallRecord("SwapMeshBuffer", "returned", mIsLoaded) EXCEPT
                         !.collider = call,
                         !.prevCount = GetVertexCount(mMesh[mActiveMesh]),
                         !.preActive = mActiveMesh]
    /\ pending' = FALSE
    /\ UNCHANGED <<mIsEmpty, built, rebuilds, shutdowns>>
    /\ UNCHANGED <<codecVars, threadVars>>

\* FChunk::ShutDown(PhysicsSystem)
ShutDown ==
    /\ shutdowns' = shutdowns + 1
    /\ LET call == IF ~mIsEmpty[mActiveMesh] THEN "remove" ELSE "none"
       IN /\ physics' = PhysicsAfter(physics, call)
          /\ last' = [CallRecord("ShutDown", "returned", mIsLoaded) EXCEPT
                         !.collider = call,
                         !.prevCount = GetVertexCount(mMesh[mActiveMesh]),
                         !.preActive = mActiveMesh]
    /\ mMesh' = [k \in 0..1 |-> Deactivate(ClearData(mMesh[k]))]
    /\ mActiveMesh' = 0
    /\ UNCHANGED <<mIsEmpty, built, pending, rounds, rebuilds, script>>
    /\ UNCHANGED <<codecVars, threadVars>>

\* FChunk::Render(RenderMode)
Render ==
    /\ IF ~mIsLoaded
       THEN \* ASSERT(mIsLoaded)
            last' = CallRecord("Render", "assert", mIsLoaded)
       ELSE \* mMesh[mActiveMesh]->Render(RenderMode)
            last' = [CallRecord("Render", "returned", mIsLoaded) EXCEPT
                        !.drawn = Geometry(mMesh[mActiveMesh])]
    /\ UNCHANGED <<mActiveMesh, mIsEmpty, mMesh, physics, built, pending, rounds, rebuilds, shutdowns, script>>
    /\ UNCHANGED <<codecVars, threadVars>>

\* ------------------------------------- Render and RebuildMesh, step by step
\* FChunk::Render on the render thread: ASSERT(mIsLoaded), then the load of
\* mActiveMesh that selects mMesh[mActiveMesh].
RenderBind ==
    /\ render.pc = "idle"
    /\ mIsLoaded
    /\ render' = [pc |-> "bound", slot |-> mActiveMesh, Vertices |-> <<>>]
    /\ UNCHANGED <<last, rebuild>>
    /\ UNCHANGED <<codecVars, meshVars>>

\* TMesh::Render of the selected slot: the draw reads the vertex buffer ...
RenderVertices ==
    /\ render.pc = "bound"
    /\ render' = [render EXCEPT !.pc = "vertices", !.Vertices = mMesh[render.slot].Vertices]
    /\ UNCHANGED <<last, rebuild>>
    /\ UNCHANGED <<codecVars, meshVars>>

\* ... and the index buffer, and Render returns.
RenderDraw ==
    /\ render.pc = "vertices"
    /\ last' = [CallRecord("Render", "returned", mIsLoaded) EXCEPT
                   !.drawn = [Vertices |-> render.Vertices,
                              Indices |-> mMesh[render.slot].Indices]]
    /\ render' = [render EXCEPT !.pc = "idle"]
    /\ UNCHANGED rebuild
    /\ UNCHANGED <<codecVars, meshVars>>

\* FChunk::RebuildMesh on the rebuild thread: mIsEmpty[!mActiveMesh] = true
RebuildClearFlag ==
    /\ rebuild.pc = "idle"
    /\ mIsEmpty' = [mIsEmpty EXCEPT ![RebuildSlot] = TRUE]
    /\ rebuild' = [rebuild EXCEPT !.pc = "mesh"]
    /\ UNCHANGED <<mActiveMesh, mMesh, physics, built, pending, rounds, rebuilds, shutdowns, script>>
    /\ UNCHANGED <<last, render>>
    /\ UNCHANGED codecVars

\* The loops of GreedyMesh: the two local vectors are filled, and
\* mIsEmpty[!mActiveMesh] is cleared when a quad is added.
RebuildGreedyMesh ==
    /\ rebuild.pc = "mesh"
    /\ \E g \in {GreedyMeshRun(mBlocks)} :
          /\ mIsEmpty' = [mIsEmpty EXCEPT ![RebuildSlot] = g.IsEmpty]
          /\ rebuild' = [rebuild EXCEPT !.pc = "vertices", !.Vertices = g.Vertices,
                                        !.Indices = g.Indices, !.Quads = g.Quads]
    /\ UNCHANGED <<mActiveMesh, mMesh, physics, built, pending, rounds, rebuilds, shutdowns, script>>
    /\ UNCHANGED <<last, render>>
    /\ UNCHANGED codecVars

\* mMesh[!mActiveMesh]->AddVertex(Vertices.data(), Vertices.size())
RebuildAddVertex ==
    /\ rebuild.pc = "vertices"
    /\ LET m == mMesh[RebuildSlot]
       IN mMesh' = [mMesh EXCEPT ![RebuildSlot] = AddVertex(m, rebuild.Vertices)]
    /\ rebuild' = [rebuild EXCEPT !.pc = "indices"]
    /\ UNCHANGED <<mActiveMesh, mIsEmpty, physics, built, pending, rounds, rebuilds, shutdowns, script>>
    /\ UNCHANGED <<last, render>>
    /\ UNCHANGED codecVars

\* mMesh[!mActiveMesh]->AddIndices(Indices.data(), Indices.size()), and
\* RebuildMesh returns.
RebuildAddIndices ==
    /\ rebuild.pc = "indices"
    /\ LET m == mMesh[RebuildSlot]
       IN mMesh' = [mMesh EXCEPT ![RebuildSlot] = AddIndices(m, rebuild.Indices)]
    /\ built' = [Vertices |-> rebuild.Vertices, Indices |-> rebuild.Indices,
                 Quads |-> rebuild.Quads, blocks |-> mBlocks]
    /\ pending' = TRUE
    /\ rebuilds' = rebuilds + 1
    /\ last' = CallRecord("RebuildMesh", "returned", mIsLoaded)
    /\ rebuild' = [pc |-> "idle", Vertices |-> <<>>, Indices |-> <<>>, Quads |-> <<>>,
                   outputs |-> rebuild.outputs
                                 \cup {[Vertices |-> rebuild.Vertices, Indices |-> rebuild.Indices]}]
    /\ UNCHANGED <<mActiveMesh, mIsEmpty, physics, rounds, shutdowns, script>>
    /\ UNCHANGED render
    /\ UNCHANGED codecVars

\* When the chunk's owner starts SwapMeshBuffer with nothing running but the
\* render thread.  (The variant that does not wait for a Render to return.)
SwapMayStartDuringRender == pending /\ rebuild.pc = "idle"

\* When the chunk's owner starts SwapMeshBuffer: after RebuildMesh has
\* returned, and with no Render in progress.
SwapMayStart == pending /\ rebuild.pc = "idle" /\ render.pc = "idle"

\* The persisted bytes are cut short: only their first n bytes are kept.
Truncate ==
    /\ diskFrom = "world"
    /\ ~mIsLoaded
    /\ \E n \in 0..(Len(disk) - 1) : disk' = SubSeq(disk, 1, n)
    /\ diskFrom' = "tampered"
    /\ last' = CallRecord("Truncate", "returned", mIsLoaded)
    /\ UNCHANGED <<mBlocks, mIsLoaded, saved, edits, calls>>
    /\ UNCHANGED <<meshVars, threadVars>>

\* The persisted bytes are rewritten by a writer that joins two neighbouring
\* pairs of one type into one pair: the same blocks in the same order, in
\* fewer pairs.
MergeRuns ==
    /\ diskFrom = "world"
    /\ ~mIsLoaded
    /\ \E k \in 1..(Len(disk) \div 2 - 1) :
          /\ disk[2 * k - 1] = disk[2 * k + 1]
          /\ disk[2 * k] + disk[2 * k + 2] < ByteMod
          /\ disk' = SubSeq(disk, 1, 2 * k - 1)
                        \o <<disk[2 * k] + disk[2 * k + 2]>>
                        \o SubSeq(disk, 2 * k + 3, Len(disk))
    /\ diskFrom' = "tampered"
    /\ last' = CallRecord("MergeRuns", "returned", mIsLoaded)
    /\ UNCHANGED <<mBlocks, mIsLoaded, saved, edits, calls>>
    /\ UNCHANGED <<meshVars, threadVars>>

\* The bytes persisted for a chunk whose rows all hold one block of type t
\* followed by blocks of type u, a pair for each part (two pairs of one type
\* when t = u).
SplitStream(t, u) ==
    [i \in 1..(4 * CHUNK_SIZE * CHUNK_SIZE) |->
        CASE i % 4 = 1 -> t
          [] i % 4 = 2 -> 1
          [] i % 4 = 3 -> u
          [] OTHER -> CHUNK_SIZE - 1]

\* A chunk as constructed: the block memory comes from the pool as it is
\* (here filled with the last block type), nothing is loaded, and the caller
\* holds the persisted bytes of a chunk.
InitChunk ==
    /\ mBlocks = Fill(MaxBlockType)
    /\ mIsLoaded = FALSE
    /\ diskFrom = "world"
    /\ saved = <<>>
    /\ last = NoCall
    /\ edits = 0
    /\ calls = 0
    /\ mActiveMesh = 0
    /\ mIsEmpty = [k \in 0..1 |-> TRUE]
    /\ mMesh = [k \in 0..1 |-> NewMesh]
    /\ physics = [registered |-> FALSE, adds |-> 0, removes |-> 0, redundant |-> FALSE]
    /\ built = [Vertices |-> <<>>, Indices |-> <<>>, Quads |-> <<>>, blocks |-> <<>>]
    /\ pending = FALSE
    /\ rounds = 0
    /\ rebuilds = 0
    /\ shutdowns = 0
    /\ script = <<>>
    /\ render = [pc |-> "idle", slot |-> 0, Vertices |-> <<>>]
    /\ rebuild = [pc |-> "idle", Vertices |-> <<>>, Indices |-> <<>>, Quads |-> <<>>,
                  outputs |-> {}]

\* Load, edit, Unload and Load again.
InitCodec ==
    /\ InitChunk
    /\ disk \in {WorldStream(t) : t \in BlockTypes}

NextCodec ==
    \/ Load
    \/ Unload
    \/ SetBlock
    \/ DestroyBlock
    \/ Render

SpecCodec == InitCodec /\ [][NextCodec]_vars

\* The chunk as its world uses it: loaded from persisted bytes, edited, and
\* after edits one RebuildMesh followed by one SwapMeshBuffer, with Render
\* calls in between.
InitRounds ==
    /\ InitChunk
    /\ disk \in {WorldStream(None), WorldStream(1)}

NextRounds ==
    \/ (~mIsLoaded /\ Load)
    \/ (mIsLoaded /\ SetBlock)
    \/ (mIsLoaded /\ DestroyBlock)
    \/ (mIsLoaded /\ ~pending /\ RebuildMesh)
    \/ (pending /\ rounds < MaxRounds /\ SwapMeshBuffer)
    \/ (mIsLoaded /\ Render)

SpecRounds == InitRounds /\ [][NextRounds]_vars

\* A render thread and a rebuild thread on one loaded chunk: Render and
\* RebuildMesh advance step by step in any interleaving, the store is edited
\* between rebuilds, and one SwapMeshBuffer follows each RebuildMesh.
InitOverlap ==
    /\ InitChunk
    /\ disk = WorldStream(1)

NextOverlap ==
    \/ (~mIsLoaded /\ Load)
    \/ (mIsLoaded /\ rebuild.pc = "idle" /\ DestroyBlock)
    \/ RenderBind
    \/ RenderVertices
    \/ RenderDraw
    \/ (mIsLoaded /\ ~pending /\ RebuildClearFlag)
    \/ RebuildGreedyMesh
    \/ RebuildAddVertex
    \/ RebuildAddIndices
    \/ (SwapMayStart /\ rounds < MaxRounds /\ SwapMeshBuffer)

SpecOverlap == InitOverlap /\ [][NextOverlap]_vars

\* Persisted bytes that were cut short or rewritten, then loaded.
InitCorrupt ==
    /\ InitChunk
    /\ disk \in {WorldStream(t) : t \in BlockTypes}
                  \cup {SplitStream(t, u) : t, u \in BlockTypes}

NextCorrupt ==
    \/ Truncate
    \/ MergeRuns
    \/ Load

SpecCorrupt == InitCorrupt /\ [][NextCorrupt]_vars

\* RebuildMesh and SwapMeshBuffer called in any order on a loaded chunk that
\* is edited in between: a swap with no rebuild before it, a rebuild after a
\* rebuild.
InitAnyOrder ==
    /\ InitChunk
    /\ disk \in {WorldStream(None), WorldStream(1)}

NextAnyOrder ==
    \/ (~mIsLoaded /\ Load)
    \/ (mIsLoaded /\ SetBlock)
    \/ (mIsLoaded /\ DestroyBlock)
    \/ (mIsLoaded /\ rebuilds < MaxRebuilds /\ RebuildMesh)
    \/ (mIsLoaded /\ rounds < MaxSwaps /\ SwapMeshBuffer)

SpecAnyOrder == InitAnyOrder /\ [][NextAnyOrder]_vars

\* Rounds of one RebuildMesh and one SwapMeshBuffer on a loaded chunk that
\* is edited in between, with ShutDown called between rounds and the chunk
\* used again after it.
InitShutDown ==
    /\ InitChunk
    /\ disk \in {WorldStream(None), WorldStream(1)}

NextShutDown ==
    \/ (~mIsLoaded /\ Load)
    \/ (mIsLoaded /\ SetBlock)
    \/ (mIsLoaded /\ DestroyBlock)
    \/ (mIsLoaded /\ ~pending /\ RebuildMesh)
    \/ (pending /\ rounds < MaxRounds /\ SwapMeshBuffer)
    \/ (~pending /\ shutdowns < MaxShutDowns /\ ShutDown)

SpecShutDown == InitShutDown /\ [][NextShutDown]_vars

\* -------------------------------------------- the face AO, on its own
\* The mask loop's three statements on one face: the 8 flags CheckAOSides
\* leaves in Sides, ComputeBlockFaceAO of them, and AddQuad of a quad that
\* carries the result, whose 4 vertices take their brightness from the table.
FaceAO ==
    \E Sides \in [0..7 -> BOOLEAN] :
        \E F \in {ComputeBlockFaceAO(Sides)} :
            /\ last' = [CallRecord("ComputeBlockFaceAO", "returned", mIsLoaded) EXCEPT
                           !.Sides = Sides,
                           !.FaceAO = F,
                           !.Colors =
                               IF \A k \in 1..4 : F[k] + 1 \in DOMAIN AOFactors
                               THEN LET q == AddQuad(Vec3(0, 0, 0), Vec3(1, 0, 0), Vec3(1, 1, 0),
                                                     Vec3(0, 1, 0), FALSE, "NORTH",
                                                     [Block |-> 1, AOFactors |-> F], <<>>, <<>>)
                                    IN [k \in 1..4 |-> q.Vertices[k].AO]
                               ELSE <<>>]
            /\ UNCHANGED <<codecVars, meshVars, threadVars>>

InitAO == InitChunk /\ disk = WorldStream(None)

NextAO == FaceAO

SpecAO == InitAO /\ [][NextAO]_vars

\* ------------------------------------------ one quad's size, on its own
\* The flags CheckAOSides can leave for a face: no neighbour, the left
\* neighbour only, all 8 neighbours.
MergeSides == {[s \in 0..7 |-> FALSE], [s \in 0..7 |-> s = 3], [s \in 0..7 |-> TRUE]}

\* The mask entries the mask loop can write for such faces.
MergeEntries == [Block : BlockTypes, AOFactors : {ComputeBlockFaceAO(Sides) : Sides \in MergeSides}]

\* The mesh loop at the first texel of a mask (n = 0, i = 0, j = 0) whose
\* entries 0 and 1 of the first two rows were written by the mask loop: the
\* test of Mask[n], the width loop and the height loop.
QuadSize ==
    \E e0 \in MergeEntries, e1 \in MergeEntries, e2 \in MergeEntries, e3 \in MergeEntries :
        \E Mask \in {[n \in 0..(CHUNK_SIZE * CHUNK_SIZE - 1) |->
                        IF n = 0 THEN e0
                        ELSE IF n = 1 THEN e1
                        ELSE IF n = CHUNK_SIZE THEN e2
                        ELSE IF n = CHUNK_SIZE + 1 THEN e3
                        ELSE NoMaskInfo]} :
            /\ IF Mask[0].Block # None
               THEN \E Width \in {QuadWidth(Mask, 0, 0, 1)} :
                        last' = [CallRecord("GreedyMesh", "returned", mIsLoaded) EXCEPT
                                    !.Mask = Mask,
                                    !.Width = Width,
                                    !.Height = QuadHeight(Mask, 0, 0, Width, 1)]
               ELSE last' = [CallRecord("GreedyMesh", "returned", mIsLoaded) EXCEPT !.Mask = Mask]
            /\ UNCHANGED <<codecVars, meshVars, threadVars>>

InitMerge == InitChunk /\ disk = WorldStream(None)

\* One quad is sized per mask.
NextMerge == last.op = "none" /\ QuadSize

SpecMerge == InitMerge /\ [][NextMerge]_vars

\* ------------------------------------------------ stores for the mesher
\* The position of a cell of the store: the inverse of BlockIndex.
PositionOf(c) == Vec3((c \div CHUNK_SIZE) % CHUNK_SIZE, c \div (CHUNK_SIZE * CHUNK_SIZE), c % CHUNK_SIZE)

\* The bytes Unload writes for a store: what the world has persisted of a
\* chunk that held it.
PersistedBytes(blocks) == UnloadRun(<<>>, blocks, None)

\* The slabs one block thick: normal to axis d at x[d] = p, from (u0, v0) to
\* (u1, v1) on the other two axes, of type t.
Slabs ==
    {sl \in [d : Axes, p : Coord, u0 : Coord, u1 : Coord, v0 : Coord, v1 : Coord,
             t : BlockTypes \ {None}] : sl.u0 <= sl.u1 /\ sl.v0 <= sl.v1}

\* The store that holds the slab and nothing else.
SlabStore(sl) ==
    [c \in Cells |->
        LET P == PositionOf(c)
        IN IF /\ P[sl.d] = sl.p
              /\ sl.u0 <= P[(sl.d + 1) % 3] /\ P[(sl.d + 1) % 3] <= sl.u1
              /\ sl.v0 <= P[(sl.d + 2) % 3] /\ P[(sl.d + 2) % 3] <= sl.v1
           THEN sl.t
           ELSE None]

\* A chunk that holds one slab is loaded and meshed.
InitSlab ==
    /\ InitChunk
    /\ disk \in {PersistedBytes(SlabStore(sl)) : sl \in Slabs}

NextSlab ==
    \/ (~mIsLoaded /\ Load)
    \/ (mIsLoaded /\ ~pending /\ RebuildMesh)

SpecSlab == InitSlab /\ [][NextSlab]_vars

\* The stores of two parts: the cells with x[d] < split hold a, the others b.
Halves == [d : Axes, split : 0..CHUNK_SIZE, a : BlockTypes, b : BlockTypes]

HalvesStore(h) == [c \in Cells |-> IF PositionOf(c)[h.d] < h.split THEN h.a ELSE h.b]

\* The stores the mesher is given: two parts, and two parts with one of the
\* edited positions set to a type of its own.
MesherStores ==
    {HalvesStore(h) : h \in Halves}
        \cup {[HalvesStore(h) EXCEPT ![BlockIndex(e[1], e[2], e[3])] = t] :
                 h \in Halves, e \in EditCells, t \in BlockTypes}

\* A chunk that holds one of these stores is loaded and meshed.
InitMesher ==
    /\ InitChunk
    /\ disk \in {PersistedBytes(blocks) : blocks \in MesherStores}

NextMesher ==
    \/ (~mIsLoaded /\ Load)
    \/ (mIsLoaded /\ ~pending /\ RebuildMesh)

SpecMesher == InitMesher /\ [][NextMesher]_vars


\* ======================================================================
\* The persisted format, stated on its own: what a byte stream describes.
\* ======================================================================
NumPairs(stream) == Len(stream) \div 2
PairType(stream, k) == stream[2 * k - 1]
PairLen(stream, k) == stream[2 * k]

\* The number of blocks described by the first k pairs.
RECURSIVE Offset(_, _)
Offset(stream, k) == IF k = 0 THEN 0 ELSE Offset(stream, k - 1) + PairLen(stream, k)

StreamSum(stream) == Offset(stream, NumPairs(stream))

\* Whole pairs, every run length in [1,255], CHUNK_SIZE^3 blocks in all.
WellFormed(stream) ==
    /\ Len(stream) % 2 = 0
    /\ \A k \in 1..NumPairs(stream) : PairLen(stream, k) \in 1..(ByteMod - 1)
    /\ StreamSum(stream) = BLOCKS_PER_CHUNK

\* The type the stream gives the block at scan position p (from 0).
TypeAt(stream, p) ==
    LET k == CHOOSE j \in 1..NumPairs(stream) :
                 Offset(stream, j - 1) <= p /\ p < Offset(stream, j)
    IN PairType(stream, k)

\* The cell at scan position p: y outer, x middle, z inner.
ScanCell(p) ==
    BlockIndex((p \div CHUNK_SIZE) % CHUNK_SIZE, p \div (CHUNK_SIZE * CHUNK_SIZE), p % CHUNK_SIZE)

\* The row (y, x) a scan position lies in.
RowOf(p) == p \div CHUNK_SIZE

\* ----------------------------------------------------------------- C1
\* C1: a store S unloaded into an empty vector and loaded again from those
\* bytes is S again, cell for cell, whatever the store held in between.
C1_RoundTrip ==
    (last.op = "Load" /\ last.outcome = "returned" /\ diskFrom = "unload")
        => mBlocks = saved

\* A reload over a store that was edited after the Unload, of a store that
\* holds more than one block type.
C1_Witness ==
    /\ last.op = "Load" /\ last.outcome = "returned" /\ diskFrom = "unload"
    /\ last.pre # saved
    /\ \E i, j \in Cells : saved[i] # saved[j]
    /\ mBlocks = saved

\* ----------------------------------------------------------------- C2
\* C2: in rounds of one RebuildMesh and one SwapMeshBuffer from a constructed
\* chunk, a swap calls AddCollider exactly when the mesh active before it was
\* empty and the one active after it is not, RemoveCollider exactly when the
\* one before was not empty and the one after is, and neither otherwise; so
\* the AddCollider calls made are as many as the rounds that went from empty
\* to non-empty, the RemoveCollider calls as many as those that went from
\* non-empty to empty, and no call is made on a collider that is already in
\* the state asked for.
C2_CollisionTransitions ==
    LET was(k) == IF k = 1 THEN FALSE ELSE script[k - 1]
        Rounds(from, to) == {k \in 1..Len(script) : was(k) = from /\ script[k] = to}
    IN /\ last.op = "SwapMeshBuffer"
            => LET wasNonEmpty == last.prevCount > 0
                   isNonEmpty == GetVertexCount(mMesh[mActiveMesh]) > 0
               IN last.collider = IF ~wasNonEmpty /\ isNonEmpty THEN "add"
                                  ELSE IF wasNonEmpty /\ ~isNonEmpty THEN "remove"
                                  ELSE "none"
       /\ physics.adds = Cardinality(Rounds(FALSE, TRUE))
       /\ physics.removes = Cardinality(Rounds(TRUE, FALSE))
       /\ physics.registered = (script # <<>> /\ script[Len(script)])
       /\ ~physics.redundant

\* The script empty -> nonempty -> nonempty -> empty has run: one AddCollider
\* and one RemoveCollider were made.
C2_Witness ==
    /\ script = <<TRUE, TRUE, FALSE>>
    /\ last.op = "SwapMeshBuffer" /\ last.collider = "remove"
    /\ physics.adds = 1
    /\ physics.removes = 1

\* ----------------------------------------------------------------- C3
\* C3: a RebuildMesh leaves the active index, the active slot's mesh and
\* empty flag, the collider registration and the block store as they were,
\* so that what Render draws is the same after it as before it.
C3_BufferIsolation ==
    [][last'.op = "RebuildMesh"
          => /\ mActiveMesh' = mActiveMesh
             /\ mMesh'[mActiveMesh] = mMesh[mActiveMesh]
             /\ mIsEmpty'[mActiveMesh] = mIsEmpty[mActiveMesh]
             /\ Geometry(mMesh'[mActiveMesh']) = Geometry(mMesh[mActiveMesh])
             /\ physics' = physics
             /\ mBlocks' = mBlocks]_vars

\* A RebuildMesh has returned while the active slot holds geometry, and the
\* geometry it wrote is another one.
C3_Witness ==
    /\ last.op = "RebuildMesh"
    /\ pending
    /\ GetVertexCount(mMesh[mActiveMesh]) > 0
    /\ GetVertexCount(mMesh[1 - mActiveMesh]) > 0
    /\ Geometry(mMesh[1 - mActiveMesh]) # Geometry(mMesh[mActiveMesh])

C6_ReportsCorruption ==
    (last.op = "Load" /\ ~last.preLoaded /\ StreamSum(disk) # BLOCKS_PER_CHUNK)
        => /\ last.outcome = "corrupt"
           /\ ~(mIsLoaded /\ last.written # {} /\ last.written # Cells)

\* ----------------------------------------------------------------- C7
\* C7: a Load of a well-formed stream, runs that cross a row end included,
\* consumes all its pairs, gives every scan position the type of the pair
\* that covers it, and reads and writes nothing outside the stream and the
\* store.
C7_DecodesFormat ==
    (last.op = "Load" /\ last.outcome = "returned" /\ WellFormed(disk))
        => /\ \A p \in Cells : mBlocks[ScanCell(p)] = TypeAt(disk, p)
           /\ last.TypeIndex = Len(disk)
           /\ ~last.readOutside
           /\ ~last.wroteOutside

\* ----------------------------------------------------------------- C8
\* C8: Unload appends, row by row in scan order, one pair per maximal run of
\* equal types inside a row: the pairs describe the store, every run length
\* is in [1, CHUNK_SIZE], no run leaves its row, two neighbouring pairs of a
\* row differ in type, each row's run lengths sum to CHUNK_SIZE and all of
\* them to CHUNK_SIZE^3.
C8_Encoding ==
    (last.op = "Unload" /\ last.outcome = "returned")
        => LET out == SubSeq(disk, last.prefix + 1, Len(disk))
               n == NumPairs(out)
           IN /\ Len(out) % 2 = 0
              /\ SubSeq(disk, 1, last.prefix) \in {<<>>, <<MaxBlockType, 1>>}
              /\ \A k \in 1..n : PairLen(out, k) \in 1..CHUNK_SIZE
              /\ StreamSum(out) = BLOCKS_PER_CHUNK
              /\ \A p \in Cells : TypeAt(out, p) = saved[ScanCell(p)]
              /\ \A k \in 1..n :
                    RowOf(Offset(out, k - 1)) = RowOf(Offset(out, k) - 1)
              /\ \A k \in 1..(n - 1) :
                    RowOf(Offset(out, k - 1)) = RowOf(Offset(out, k))
                        => PairType(out, k) # PairType(out, k + 1)
              /\ \A r \in 0..(CHUNK_SIZE * CHUNK_SIZE - 1) :
                    Offset(out, Cardinality({k \in 1..n : RowOf(Offset(out, k - 1)) <= r}))
                        = (r + 1) * CHUNK_SIZE

\* An Unload, onto a vector that held a pair, of a store with a row that is
\* in more than one run.
C8_Witness ==
    /\ last.op = "Unload" /\ last.outcome = "returned"
    /\ last.prefix > 0
    /\ saved[BlockIndex(1, 1, 0)] # saved[BlockIndex(1, 1, 1)]
    /\ NumPairs(disk) > CHUNK_SIZE * CHUNK_SIZE + 1

\* ----------------------------------------------------------------- C9
\* C9: a call made in the wrong loaded state is rejected and not executed:
\* Load on a loaded chunk, and Unload, Render, SetBlock or DestroyBlock on a
\* chunk that is not loaded; a Load that returns leaves the chunk loaded and
\* an Unload that returns leaves it not loaded.
C9_LoadedStatePreconditions ==
    /\ (last.op = "Load" /\ last.preLoaded) => last.outcome = "assert"
    /\ (last.op \in {"Unload", "Render", "SetBlock", "DestroyBlock"} /\ ~last.preLoaded)
          => last.outcome = "assert"
    /\ (last.op = "Load" /\ last.outcome = "returned") => (~last.preLoaded /\ mIsLoaded)
    /\ (last.op = "Unload" /\ last.outcome = "returned") => (last.preLoaded /\ ~mIsLoaded)

\* ---------------------------------------------------------------- C10
\* C10: the mesh RebuildMesh builds of a store that holds one block type in
\* every cell but one interior cell, which is empty, is 12 quads: on each of
\* the 6 sides of the chunk one quad of CHUNK_SIZE x CHUNK_SIZE, and on each
\* of the 6 faces around the empty cell one quad of 1 x 1.
C10_SolidWithHole ==
    \A t \in BlockTypes \ {None}, h \in [Axes -> 1..(CHUNK_SIZE - 2)] :
        built.blocks = [Fill(t) EXCEPT ![BlockIndex(h[0], h[1], h[2])] = None]
            => LET Exterior ==
                       {[BackFace |-> B, Side |-> SideOf(d, B), d |-> d,
                         plane |-> IF B THEN 0 ELSE CHUNK_SIZE,
                         i |-> 0, j |-> 0, Width |-> CHUNK_SIZE, Height |-> CHUNK_SIZE,
                         Block |-> t, AOFactors |-> <<3, 3, 3, 3>>] :
                          d \in Axes, B \in BOOLEAN}
                   Cavity ==
                       {[BackFace |-> B, Side |-> SideOf(d, B), d |-> d,
                         plane |-> IF B THEN h[d] + 1 ELSE h[d],
                         i |-> h[(d + 1) % 3], j |-> h[(d + 2) % 3],
                         Width |-> 1, Height |-> 1,
                         Block |-> t, AOFactors |-> <<0, 0, 0, 0>>] :
                          d \in Axes, B \in BOOLEAN}
               IN /\ Len(built.Quads) = 12
                  /\ {built.Quads[k] : k \in 1..Len(built.Quads)} = Exterior \cup Cavity
                  /\ Len(built.Vertices) = 4 * 12
                  /\ Len(built.Indices) = 6 * 12

\* RebuildMesh has meshed the store of one type with the cell (1, 1, 1) empty.
C10_Witness ==
    /\ last.op = "RebuildMesh"
    /\ built.blocks = [Fill(1) EXCEPT ![BlockIndex(1, 1, 1)] = None]
    /\ Len(built.Quads) = 12

\* ---------------------------------------------------------------- C11
\* The cells of a store that hold a block.
Occupied(blocks) == {c \in Cells : blocks[c] # None}

\* The store holds a slab normal to axis d and nothing else: its blocks are
\* of one type, lie in one plane x[d] = p, and fill a rectangle of it.
IsSlab(blocks, d) ==
    LET Occ == Occupied(blocks)
        U == {PositionOf(c)[(d + 1) % 3] : c \in Occ}
        V == {PositionOf(c)[(d + 2) % 3] : c \in Occ}
    IN /\ Occ # {}
       /\ \A a, b \in Occ : blocks[a] = blocks[b] /\ PositionOf(a)[d] = PositionOf(b)[d]
       /\ \A a \in Coord : (\E lo, hi \in U : lo <= a /\ a <= hi) => a \in U
       /\ \A a \in Coord : (\E lo, hi \in V : lo <= a /\ a <= hi) => a \in V
       /\ Cardinality(Occ) = Cardinality(U) * Cardinality(V)

Lowest(S) == CHOOSE a \in S : \A b \in S : a <= b

\* The two quads that cover the two large faces of the slab a store holds.
SlabFaces(blocks, d) ==
    LET Occ == Occupied(blocks)
        U == {PositionOf(c)[(d + 1) % 3] : c \in Occ}
        V == {PositionOf(c)[(d + 2) % 3] : c \in Occ}
        p == PositionOf(CHOOSE c \in Occ : TRUE)[d]
    IN {[BackFace |-> B, Side |-> SideOf(d, B), d |-> d,
         plane |-> IF B THEN p ELSE p + 1,
         i |-> Lowest(U), j |-> Lowest(V),
         Width |-> Cardinality(U), Height |-> Cardinality(V),
         Block |-> blocks[CHOOSE c \in Occ : TRUE],
         AOFactors |-> <<3, 3, 3, 3>>] : B \in BOOLEAN}

\* C11: of a store that holds a slab one block thick of one type and nothing
\* else, the mesher emits for each of the slab's two large faces exactly one
\* quad, fully lit, whose rectangle is the whole slab; no other quad lies
\* across the slab's thickness.
C11_SlabOneQuad ==
    last.op = "RebuildMesh"
        => \A d \in Axes :
              IsSlab(built.blocks, d)
                  => /\ {built.Quads[k] : k \in {m \in 1..Len(built.Quads) : built.Quads[m].d = d}}
                           = SlabFaces(built.blocks, d)
                     /\ Cardinality({m \in 1..Len(built.Quads) : built.Quads[m].d = d}) = 2

\* The mesh of a slab of 2 x CHUNK_SIZE blocks, in the middle plane of the
\* chunk, was built: its two large faces are one quad each.
C11_Witness ==
    /\ last.op = "RebuildMesh"
    /\ built.blocks = SlabStore([d |-> 1, p |-> 1, u0 |-> 1, u1 |-> 2, v0 |-> 0,
                                 v1 |-> CHUNK_SIZE - 1, t |-> 1])
    /\ \E k \in 1..Len(built.Quads) :
          /\ built.Quads[k].d = 1
          /\ built.Quads[k].Width = 2
          /\ built.Quads[k].Height = CHUNK_SIZE


\* ---------------------------------------------------------------- C12
\* The quad Quads[k] of a mesh covers the texel (a, b) of the plane x[d] = p
\* in the pass of axis d that emits the back faces (B) or the front faces.
Covers(q, B, d, p, a, b) ==
    /\ q.BackFace = B /\ q.d = d /\ q.plane = p
    /\ q.i <= a /\ a < q.i + q.Width
    /\ q.j <= b /\ b < q.j + q.Height

\* The cell of the store at x[d] = p, x[u] = a, x[v] = b: None outside the chunk.
CellAt(blocks, d, p, a, b) ==
    IF p < 0 \/ p > CHUNK_SIZE - 1
    THEN None
    ELSE BlockAt(blocks, [k \in Axes |-> IF k = d THEN p ELSE IF k = (d + 1) % 3 THEN a ELSE b])

\* C12: where two cells adjacent along an axis hold the same block type, no
\* quad of any of the 6 passes covers the face the two cells share.
C12_OcclusionSuppression ==
    last.op = "RebuildMesh"
        => \A d \in Axes, p \in 1..(CHUNK_SIZE - 1), a \in Coord, b \in Coord :
              (/\ CellAt(built.blocks, d, p - 1, a, b) # None
               /\ CellAt(built.blocks, d, p - 1, a, b) = CellAt(built.blocks, d, p, a, b))
                  => \A k \in 1..Len(built.Quads), B \in BOOLEAN :
                        ~Covers(built.Quads[k], B, d, p, a, b)

\* A store whose lower part is of one type and whose upper part is empty was
\* meshed: it has same-type neighbours below the top face and a quad on it.
C12_Witness ==
    /\ last.op = "RebuildMesh"
    /\ built.blocks = HalvesStore([d |-> 1, split |-> 2, a |-> 1, b |-> None])
    /\ \E k \in 1..Len(built.Quads) : built.Quads[k].d = 1 /\ built.Quads[k].plane = 2


\* ---------------------------------------------------------------- C13
\* For each corner of a face, in the order x, y, z, w of the face AO: its two
\* edge neighbours and its diagonal neighbour among the 8 flags.
CornerNeighbours == <<[e1 |-> 3, e2 |-> 1, c |-> 0], [e1 |-> 3, e2 |-> 6, c |-> 5], [e1 |-> 4, e2 |-> 6, c |-> 7], [e1 |-> 1, e2 |-> 4, c |-> 2]>>

\* C13: for every combination of the 8 neighbour flags each of the 4 corner
\* values of the face AO is in 0..3, a corner whose two edge neighbours are
\* both occupied has value 0 whatever its diagonal neighbour, and AddQuad
\* finds each corner's brightness in the table of 4 entries.
C13_AORange ==
    last.op = "ComputeBlockFaceAO"
        => /\ Len(last.FaceAO) = 4
           /\ \A k \in 1..4 :
                 /\ last.FaceAO[k] \in 0..3
                 /\ (last.Sides[CornerNeighbours[k].e1] /\ last.Sides[CornerNeighbours[k].e2])
                       => last.FaceAO[k] = 0
           /\ Len(last.Colors) = 4
           /\ \A k \in 1..4 : last.Colors[k] \in {AOFactors[n] : n \in 1..4}

\* A face whose top-left corner has both edge neighbours occupied and the
\* diagonal one empty, and whose bottom-right corner has no neighbour.
C13_Witness ==
    /\ last.op = "ComputeBlockFaceAO"
    /\ last.Sides[3] /\ last.Sides[1] /\ ~last.Sides[0]
    /\ ~last.Sides[4] /\ ~last.Sides[6] /\ ~last.Sides[7]
    /\ last.FaceAO[1] = 0 /\ last.FaceAO[3] = 3


\* ---------------------------------------------------------------- C14
\* The quads of a mesh that cover the texel (a, b) of the plane x[d] = p in
\* the pass of facing B.
FacesAt(mesh, B, d, p, a, b) == {k \in 1..Len(mesh.Quads) : Covers(mesh.Quads[k], B, d, p, a, b)}

\* C14: for every store, axis, plane and texel, with Voxel1 the cell before
\* the plane and Voxel2 the cell behind it (None outside the chunk): the pass
\* of the back faces emits a face there exactly when the two cells differ in
\* type and Voxel2 is not None, and it is a face of Voxel2; the pass of the
\* front faces emits one exactly when they differ and Voxel1 is not None, and
\* it is a face of Voxel1; a face is emitted once.  Two adjacent cells of two
\* different non-None types so produce two faces, one per facing, and two
\* cells of the same type none.
C14_MaskRule ==
    last.op = "RebuildMesh"
        => \A d \in Axes, p \in 0..CHUNK_SIZE, a \in Coord, b \in Coord, B \in BOOLEAN :
              LET Voxel1 == CellAt(built.blocks, d, p - 1, a, b)
                  Voxel2 == CellAt(built.blocks, d, p, a, b)
                  Mine == IF B THEN Voxel2 ELSE Voxel1
                  Faces == FacesAt(built, B, d, p, a, b)
              IN IF Voxel1 # Voxel2 /\ Mine # None
                 THEN /\ Cardinality(Faces) = 1
                      /\ \A k \in Faces : built.Quads[k].Block = Mine
                 ELSE Faces = {}

\* The store whose bottom layer is of type 1 and whose other layers are of
\* type 2 was meshed: the plane between them carries a face of each.
C14_Witness ==
    /\ last.op = "RebuildMesh"
    /\ built.blocks = HalvesStore([d |-> 1, split |-> 1, a |-> 1, b |-> 2])
    /\ \E k \in FacesAt(built, TRUE, 1, 1, 0, 0) : built.Quads[k].Block = 2
    /\ \E k \in FacesAt(built, FALSE, 1, 1, 0, 0) : built.Quads[k].Block = 1

\* The rule as stated at first: a face lies between the two cells exactly
\* when one of them is None and the other is not, once, for the block, in
\* the pass that faces from the block to the empty cell; two adjacent cells
\* that both hold a block have no face between them, whatever their types.
C14_FaceOnlyNextToNone ==
    last.op = "RebuildMesh"
        => \A d \in Axes, p \in 0..CHUNK_SIZE, a \in Coord, b \in Coord :
              LET Voxel1 == CellAt(built.blocks, d, p - 1, a, b)
                  Voxel2 == CellAt(built.blocks, d, p, a, b)
                  Back == FacesAt(built, TRUE, d, p, a, b)
                  Front == FacesAt(built, FALSE, d, p, a, b)
              IN IF Voxel1 = None /\ Voxel2 # None
                 THEN Front = {} /\ Cardinality(Back) = 1
                      /\ \A k \in Back : built.Quads[k].Block = Voxel2
                 ELSE IF Voxel1 # None /\ Voxel2 = None
                 THEN Back = {} /\ Cardinality(Front) = 1
                      /\ \A k \in Front : built.Quads[k].Block = Voxel1
                 ELSE Back = {} /\ Front = {}


\* ---------------------------------------------------------------- C15
\* The 4 AO corner values of a mask entry are one value.
UniformAO(e) == \A k \in 1..4 : e.AOFactors[k] = e.AOFactors[1]

\* C15: a quad started at a non-empty texel grows in width over the next
\* texel along u exactly when that texel's entry has the starting texel's
\* block type and the 4 AO corner values of both entries are all one and the
\* same value; it then grows in height over the next row exactly when every
\* texel of that row across the width has such an entry.  Two entries with
\* the same 4 corner values that are not one value are not merged.
C15_MergeRule ==
    (last.op = "GreedyMesh" /\ last.Mask[0].Block # None)
        => LET Mask == last.Mask
               Same(m) == /\ Mask[m].Block = Mask[0].Block
                          /\ Mask[m].AOFactors = Mask[0].AOFactors
                          /\ UniformAO(Mask[0])
           IN /\ last.Width \in 1..CHUNK_SIZE /\ last.Height \in 1..CHUNK_SIZE
              /\ \A w \in 1..(CHUNK_SIZE - 1) :
                    last.Width > w <=> \A m \in 1..w : Same(m)
              /\ \A h \in 1..(CHUNK_SIZE - 1) :
                    last.Height > h
                        <=> \A r \in 1..h, k \in 0..(last.Width - 1) : Same(k + r * CHUNK_SIZE)

\* A quad was started at a texel whose right neighbour has the same entry,
\* with AO corners (2, 2, 3, 3): it stayed one texel wide.
C15_Witness ==
    /\ last.op = "GreedyMesh"
    /\ last.Mask[0] = [Block |-> 1, AOFactors |-> <<2, 2, 3, 3>>]
    /\ last.Mask[1] = last.Mask[0]
    /\ last.Width = 1

\* The rule as stated at first: width and height grow exactly over the
\* entries identical to the starting texel's, the AO values compared corner
\* by corner.
C15_MergesIdentical ==
    (last.op = "GreedyMesh" /\ last.Mask[0].Block # None)
        => LET Mask == last.Mask
               Identical(m) == /\ Mask[m].Block = Mask[0].Block
                               /\ Mask[m].AOFactors = Mask[0].AOFactors
           IN /\ \A w \in 1..(CHUNK_SIZE - 1) :
                    last.Width > w <=> \A m \in 1..w : Identical(m)
              /\ \A h \in 1..(CHUNK_SIZE - 1) :
                    last.Height > h
                        <=> \A r \in 1..h, k \in 0..(last.Width - 1) : Identical(k + r * CHUNK_SIZE)


\* ---------------------------------------------------------------- C16
\* C16: whatever the order of the RebuildMesh and SwapMeshBuffer calls,
\* AddCollider is never called while the collider is registered and
\* RemoveCollider never while it is not, and when SwapMeshBuffer has returned
\* the collider is registered exactly when the active mesh has a vertex.
C16_ColliderAnyOrder ==
    /\ ~physics.redundant
    /\ last.op = "SwapMeshBuffer"
          => (physics.registered <=> GetVertexCount(mMesh[mActiveMesh]) > 0)


\* ---------------------------------------------------------------- C17
\* C17: between rounds of RebuildMesh; SwapMeshBuffer, ShutDown calls
\* RemoveCollider exactly when the collider is registered and leaves both
\* meshes without geometry and deactivated, with slot 0 active; after it the
\* chunk is as constructed for the collider: no later ShutDown or
\* SwapMeshBuffer calls RemoveCollider while the collider is not registered
\* or AddCollider while it is, and after each round the collider is
\* registered exactly when the active mesh has a vertex.
C17_ShutDownAndReuse ==
    /\ ~physics.redundant
    /\ last.op = "ShutDown"
          => /\ ~physics.registered
             /\ mActiveMesh = 0
             /\ \A k \in 0..1 : GetVertexCount(mMesh[k]) = 0 /\ mMesh[k].Indices = <<>>
                                   /\ ~mMesh[k].Active
    /\ last.op = "SwapMeshBuffer"
          => (physics.registered <=> GetVertexCount(mMesh[mActiveMesh]) > 0)


\* ---------------------------------------------------------------- C18
\* C18: when RebuildMesh has returned, whatever the inactive slot held
\* before, its vertices and indices are the mesher's output for the store,
\* every index is smaller than the slot's vertex count, and the slot's empty
\* flag is true exactly when the output has no quad.
C18_RebuildRewrites ==
    last.op = "RebuildMesh"
        => /\ built.blocks = mBlocks
           /\ mMesh[RebuildSlot].Vertices = built.Vertices
           /\ mMesh[RebuildSlot].Indices = built.Indices
           /\ \A k \in 1..Len(mMesh[RebuildSlot].Indices) :
                 mMesh[RebuildSlot].Indices[k] < GetVertexCount(mMesh[RebuildSlot])
           /\ mIsEmpty[RebuildSlot] <=> (built.Quads = <<>>)


\* ---------------------------------------------------------------- C19
\* The mask the mask loop computes for the pass of facing B along axis d
\* before the plane x[d] = p.
MaskOf(blocks, B, d, p) == ComputeMask([MeshStart EXCEPT !.BackFace = B, !.d = d, !.xd = p - 1, !.n = 0], blocks).Mask

\* C19: in each of the 6 passes at each plane, every non-empty texel of the
\* mask is covered by exactly one quad, which has the texel's block type and
\* AO corner values (those of the texel the quad was started from), and no
\* empty texel is covered; every quad is at least one texel wide and high and
\* lies inside the mask, and the mesher ends with no more quads than there
\* are texels.
C19_QuadsPartitionMask ==
    last.op = "RebuildMesh"
        => /\ \A B \in BOOLEAN, d \in Axes, p \in 0..CHUNK_SIZE :
                 LET Mask == MaskOf(built.blocks, B, d, p)
                 IN \A a \in Coord, b \in Coord :
                       LET Faces == FacesAt(built, B, d, p, a, b)
                       IN IF Mask[a + b * CHUNK_SIZE].Block # None
                          THEN /\ Cardinality(Faces) = 1
                               /\ \A k \in Faces :
                                     /\ built.Quads[k].Block = Mask[a + b * CHUNK_SIZE].Block
                                     /\ built.Quads[k].AOFactors = Mask[a + b * CHUNK_SIZE].AOFactors
                          ELSE Faces = {}
           /\ \A k \in 1..Len(built.Quads) :
                 /\ built.Quads[k].Width >= 1 /\ built.Quads[k].i + built.Quads[k].Width <= CHUNK_SIZE
                 /\ built.Quads[k].Height >= 1 /\ built.Quads[k].j + built.Quads[k].Height <= CHUNK_SIZE
                 /\ built.Quads[k].plane \in 0..CHUNK_SIZE
           /\ Len(built.Quads) <= 6 * (CHUNK_SIZE + 1) * CHUNK_SIZE * CHUNK_SIZE

\* A store of one type with the cell (1, 1, 1) of another type was meshed:
\* it has a quad two rows high or more, a quad of the other type and a quad
\* that is not fully lit.
C19_Witness ==
    /\ last.op = "RebuildMesh"
    /\ built.blocks = [Fill(1) EXCEPT ![BlockIndex(1, 1, 1)] = 2]
    /\ \E k \in 1..Len(built.Quads) : built.Quads[k].Height >= 2
    /\ \E k \in 1..Len(built.Quads) : built.Quads[k].Block = 2
    /\ \E k \in 1..Len(built.Quads) : built.Quads[k].AOFactors # <<3, 3, 3, 3>>


\* ---------------------------------------------------------------- C20
\* C20: every index at which Unload reads a block is in 0..CHUNK_SIZE^3 - 1,
\* the look-ahead read of the next block at the end of the last row included.
C20_UnloadReadsInside ==
    (last.op = "Unload" /\ last.outcome = "returned")
        => \A i \in last.reads : 0 <= i /\ i < CHUNK_SIZE * CHUNK_SIZE * CHUNK_SIZE

=============================================================================
